---------------------------- MODULE Spec2Model ----------------------------
(***************************************************************************)
(* A model of the table-schema <-> DDL codec of src/orm/ddl:               *)
(*   ddl_to_sql  (ddl_to_sql.py)  renders a schema record as DDL text,     *)
(*   sql_to_ddl  (sql_to_ddl.py)  parses DDL text back into a record.      *)
(*                                                                         *)
(* Text is a sequence of lexemes.  A lexeme is a string that is one of     *)
(*   - a whitespace run        " ", "    " (the indent), "\n"              *)
(*   - one punctuation mark    (backtick, quotes, parentheses, comma, ...) *)
(*   - one digit               "0" .. "9"                                  *)
(*   - the underscore          "_"                                         *)
(*   - a run of letters        a keyword ("create", "KEY", ...) or one     *)
(*                             letter of a name, a default or a comment    *)
(* Every lexeme lies inside one character class of the regular             *)
(* expressions of sql_to_ddl.py (blank, word, digit, letter, any), and     *)
(* the letters of names and comments never spell a keyword, so matching    *)
(* lexeme by lexeme decides what matching character by character does.     *)
(*                                                                         *)
(* A Python dict is a function from its keys; an absent key is outside     *)
(* the DOMAIN.  A Python value that may be None, a str or an int (the      *)
(* "default" of a column) is tagged: PyNone, PyStr(s), PyInt(n).           *)
(* enum_values is modelled by its cardinality: EnumTypeHandler reads       *)
(* nothing of it but its truth value and len().                            *)
(***************************************************************************)
EXTENDS Integers, Sequences, FiniteSets, TLC

VARIABLES
    pc,                 \* which call of the driver comes next
    table_config,       \* the schema record handed to ddl_to_sql
    quote_field_names,  \* the identifier-quoting switch of ddl_to_sql
    sql_str,            \* result of ddl_to_sql(table_config, quote_field_names)
    ddl_data,           \* result of sql_to_ddl on the text at hand
    sql_str_2,          \* sql_to_ddl_test.py: ddl_to_sql(ddl_data_1)
    ddl_data_2          \* sql_to_ddl_test.py: sql_to_ddl(sql_str_2)

vars == <<pc, table_config, quote_field_names, sql_str, ddl_data, sql_str_2, ddl_data_2>>

-----------------------------------------------------------------------------
(* Python values *)

EmptyDict == <<>>
Get(d, k, dflt) == IF k \in DOMAIN d THEN d[k] ELSE dflt
PyNone == [kind |-> "None"]
PyStr(s) == [kind |-> "str", val |-> s]
PyInt(n) == [kind |-> "int", val |-> n]

(* the outcome of a call: a value returned, an exception raised, or not called yet *)
NotCalled == [status |-> "none"]
Return(v) == [status |-> "ok", value |-> v]
Raise(e) == [status |-> "error", error |-> e]
IsOk(r) == r.status = "ok"
IsError(r) == r.status = "error"

-----------------------------------------------------------------------------
(* Lexemes and character classes *)

BackTick == "BACKTICK"   \* the grave accent that quotes an identifier
Quote == "'"
DoubleQuote == "\""
BackSlash == "\\"
Digits == {"0", "1", "2", "3", "4", "5", "6", "7", "8", "9"}
Whitespace == {" ", "    ", "\n"}
Punctuation == {BackTick, Quote, DoubleQuote, "(", ")", ",", ";", "=", BackSlash}
IsSpace(x) == x \in Whitespace
IsDigit(x) == x \in Digits
EndOfText == ""
IsAlpha(x) == x \notin Whitespace \cup Punctuation \cup Digits \cup {"_", EndOfText}
IsWord(x) == IsAlpha(x) \/ IsDigit(x) \/ x = "_"

UpperTable ==
    [create |-> "CREATE", table |-> "TABLE", int |-> "INT", bigint |-> "BIGINT",
     smallint |-> "SMALLINT", tinyint |-> "TINYINT", mediumint |-> "MEDIUMINT",
     varchar |-> "VARCHAR", date |-> "DATE", datetime |-> "DATETIME",
     decimal |-> "DECIMAL", text |-> "TEXT", mediumtext |-> "MEDIUMTEXT",
     json |-> "JSON", unsigned |-> "UNSIGNED", btree |-> "BTREE", hash |-> "HASH",
     float |-> "FLOAT", char |-> "CHAR", key |-> "KEY", index |-> "INDEX",
     comment |-> "COMMENT", default |-> "DEFAULT", not |-> "NOT", null |-> "NULL",
     primary |-> "PRIMARY", unique |-> "UNIQUE", using |-> "USING",
     engine |-> "ENGINE", a |-> "A", b |-> "B", c |-> "C", t |-> "T", u |-> "U"]
Upper(x) == IF x \in DOMAIN UpperTable THEN UpperTable[x] ELSE x
LowerTable ==
    [INT |-> "int", DATETIME |-> "datetime", DATE |-> "date", ENUM |-> "enum"]
Lower(x) == IF x \in DOMAIN LowerTable THEN LowerTable[x] ELSE x
UpperStr(s) == [i \in 1..Len(s) |-> Upper(s[i])]

At(s, i) == IF i \in 1..Len(s) THEN s[i] ELSE EndOfText
Min(S) == CHOOSE k \in S : \A m \in S : k <= m
Max(S) == CHOOSE k \in S : \A m \in S : k >= m

DigitOf == <<"0", "1", "2", "3", "4", "5", "6", "7", "8", "9">>
RECURSIVE Str(_)
Str(n) == IF n < 10 THEN <<DigitOf[n + 1]>> ELSE Str(n \div 10) \o <<DigitOf[(n % 10) + 1]>>
DigitValue(x) == CHOOSE d \in 0..9 : DigitOf[d + 1] = x
RECURSIVE IntOfDigits(_)
IntOfDigits(s) ==
    IF Len(s) = 0 THEN 0
    ELSE 10 * IntOfDigits(SubSeq(s, 1, Len(s) - 1)) + DigitValue(s[Len(s)])
IsDigitStr(s) == Len(s) > 0 /\ \A i \in 1..Len(s) : IsDigit(s[i])
IsIdentifier(s) ==
    /\ Len(s) > 0
    /\ IsAlpha(s[1]) \/ s[1] = "_"
    /\ \A i \in 1..Len(s) : IsWord(s[i])

RECURSIVE Replace(_, _, _)
Replace(s, old, new) ==
    IF Len(s) = 0 THEN <<>>
    ELSE IF Len(s) >= Len(old) /\ SubSeq(s, 1, Len(old)) = old
         THEN new \o Replace(SubSeq(s, Len(old) + 1, Len(s)), old, new)
         ELSE <<s[1]>> \o Replace(Tail(s), old, new)

RECURSIVE Join(_, _)
Join(parts, sep) ==
    IF Len(parts) = 0 THEN <<>>
    ELSE IF Len(parts) = 1 THEN parts[1]
    ELSE parts[1] \o sep \o Join(Tail(parts), sep)

RECURSIVE Flatten(_)
Flatten(parts) == IF Len(parts) = 0 THEN <<>> ELSE parts[1] \o Flatten(Tail(parts))

-----------------------------------------------------------------------------
(* ddl_to_sql.py: the type handlers and the registry *)

TinyMax == 255
SmallMax == 65535
MediumMax == 16777215
DefaultPrecision == 10
DefaultScale == 2

MissingLength(field, param) ==
    Raise([kind |-> "MissingParameter", param |-> param, field |-> field.name])

IntFamilyConvert(field, keyword) ==
    IF "length" \notin DOMAIN field THEN MissingLength(field, "length")
    ELSE Return(<<keyword, "(">> \o Str(field.length) \o <<")">>)

StringTypeHandler(field) ==
    IF "max_length" \notin DOMAIN field THEN MissingLength(field, "max_length")
    ELSE Return(<<"varchar", "(">> \o Str(field.max_length) \o <<")">>)

DateTypeHandler(field) ==
    IF field.type = "datetime" THEN Return(<<"datetime">>) ELSE Return(<<"date">>)

DecimalTypeHandler(field) ==
    Return(<<"decimal", "(">> \o Str(Get(field, "precision", DefaultPrecision)) \o <<",">>
           \o Str(Get(field, "scale", DefaultScale)) \o <<")">>)

EnumKeywordLoose(enum_count) ==
    IF enum_count < TinyMax THEN "tinyint"
    ELSE IF enum_count < SmallMax THEN "smallint"
    ELSE IF enum_count < MediumMax THEN "mediumint"
    ELSE "int"

EnumKeyword(enum_count) ==
    IF enum_count <= TinyMax THEN "tinyint"
    ELSE IF enum_count <= SmallMax THEN "smallint"
    ELSE IF enum_count <= MediumMax THEN "mediumint"
    ELSE "int"

EnumTypeHandler(field) ==
    LET enum_count == Get(field, "enum_values", 0)
    IN  IF enum_count = 0
        THEN Raise([kind |-> "MissingParameter", param |-> "enum_values"])
        ELSE Return(<<EnumKeyword(enum_count)>>)

ConvertType(field) ==
    LET type_name == Lower(field.type)
    IN  CASE type_name = "int" -> IntFamilyConvert(field, "int")
          [] type_name = "bigint" -> IntFamilyConvert(field, "bigint")
          [] type_name = "smallint" -> IntFamilyConvert(field, "smallint")
          [] type_name = "tinyint" -> IntFamilyConvert(field, "tinyint")
          [] type_name = "string" -> StringTypeHandler(field)
          [] type_name \in {"date", "datetime"} -> DateTypeHandler(field)
          [] type_name = "decimal" -> DecimalTypeHandler(field)
          [] type_name = "json" -> Return(<<"json">>)
          [] type_name = "text" -> Return(<<"text">>)
          [] type_name = "mediumtext" -> Return(<<"mediumtext">>)
          [] type_name = "enum" -> EnumTypeHandler(field)
          [] OTHER -> Return(<<"text">>)

-----------------------------------------------------------------------------
(* ddl_to_sql.py: _format_field *)

QuoteName(name, quote) == IF quote THEN <<BackTick>> \o name \o <<BackTick>> ELSE name

EscapeComment(comment) == Replace(comment, <<Quote>>, <<BackSlash, Quote>>)

UnsignedClause(field) ==
    IF Get(field, "unsigned", FALSE) THEN <<" ", "unsigned">> ELSE <<>>

NotNullClause(field) ==
    IF Get(field, "not_null", FALSE) \/ Get(field, "required", FALSE)
    THEN <<" ", "NOT", " ", "NULL">> ELSE <<>>

AutoIncrementClause(field) ==
    IF Get(field, "auto_increment", FALSE) THEN <<" ", "AUTO", "_", "INCREMENT">> ELSE <<>>

DefaultClauseAlwaysQuoted(field) ==
    IF "default" \in DOMAIN field /\ field.default # PyNone
    THEN <<" ", "DEFAULT", " ">> \o
         (IF field.default.kind = "str" THEN <<Quote>> \o field.default.val \o <<Quote>>
          ELSE Str(field.default.val))
    ELSE <<>>

DefaultClause(field) ==
    IF "default" \in DOMAIN field /\ field.default # PyNone
    THEN LET default_val == field.default
         IN  <<" ", "DEFAULT", " ">> \o
             (IF default_val.kind = "str"
              THEN IF ~IsDigitStr(default_val.val)
                   THEN <<Quote>> \o default_val.val \o <<Quote>>
                   ELSE default_val.val
              ELSE Str(default_val.val))
    ELSE <<>>

CommentClause(comment) ==
    IF Len(comment) > 0 THEN <<" ", "COMMENT", " ", Quote>> \o EscapeComment(comment) \o <<Quote>>
    ELSE <<>>

FormatField(field, quote) ==
    LET field_type == ConvertType(field)
    IN  IF IsError(field_type) THEN field_type
        ELSE Return(QuoteName(field.name, quote) \o <<" ">> \o field_type.value
                    \o UnsignedClause(field)
                    \o NotNullClause(field)
                    \o AutoIncrementClause(field)
                    \o DefaultClause(field)
                    \o CommentClause(Get(field, "comment", <<>>)))

-----------------------------------------------------------------------------
(* ddl_to_sql.py: ddl_to_sql *)

AllFieldList(config) ==
    Get(config, "id_fields", <<>>) \o Get(config, "key_fields", <<>>)
    \o Get(config, "value_fields", <<>>) \o Get(config, "status_fields", <<>>)

(* lines 216-228: the loop raises at the first field whose name is not an
   identifier or was already seen; the identifier test comes first *)
NameInvalid(fields, i) == ~IsIdentifier(fields[i].name)
NameSeen(fields, i) == \E j \in 1..(i - 1) : fields[j].name = fields[i].name

CheckFieldsNoDuplicateTest(fields, table_name) ==
    LET bad == {i \in 1..Len(fields) : NameInvalid(fields, i)}
    IN  IF bad = {} THEN Return(TRUE)
        ELSE LET i == CHOOSE k \in bad : \A m \in bad : k <= m
             IN  Raise([kind |-> "InvalidIdentifier", field |-> fields[i].name,
                        table |-> table_name])

CheckFields(fields, table_name) ==
    LET bad == {i \in 1..Len(fields) : NameInvalid(fields, i) \/ NameSeen(fields, i)}
    IN  IF bad = {} THEN Return(TRUE)
        ELSE LET i == CHOOSE k \in bad : \A m \in bad : k <= m
             IN  IF NameInvalid(fields, i)
                 THEN Raise([kind |-> "InvalidIdentifier", field |-> fields[i].name,
                             table |-> table_name])
                 ELSE Raise([kind |-> "DuplicateField", field |-> fields[i].name,
                             table |-> table_name])

(* line 231: the list comprehension raises at the first field that fails *)
FirstErrorOrValues(formatted) ==
    IF \E i \in 1..Len(formatted) : IsError(formatted[i])
    THEN formatted[Min({i \in 1..Len(formatted) : IsError(formatted[i])})]
    ELSE Return([i \in 1..Len(formatted) |-> formatted[i].value])

FormattedFields(fields, quote) ==
    FirstErrorOrValues([i \in 1..Len(fields) |-> FormatField(fields[i], quote)])

KeyColumns(names, quote) ==
    Join([i \in 1..Len(names) |-> IF quote THEN <<BackTick>> \o names[i] \o <<BackTick>> ELSE names[i]],
         <<",", " ">>)

FieldLines(formatted) ==
    [i \in 1..Len(formatted) |-> <<"    ">> \o formatted[i] \o <<",">>]

PrimaryKeyLines(config, quote) ==
    LET pk_info == Get(config, "primary_key", PyNone)
    IN  IF pk_info # PyNone /\ Len(Get(pk_info, "fields", <<>>)) > 0
        THEN << <<"    ", "PRIMARY", " ", "KEY", " ", "(">> \o KeyColumns(pk_info.fields, quote)
                \o <<")">>
                \o (IF Len(Get(pk_info, "index_type", <<>>)) > 0
                    THEN <<" ", "USING", " ">> \o UpperStr(pk_info.index_type) ELSE <<>>)
                \o <<",">> >>
        ELSE <<>>

UniqueKeyLines(config, quote) ==
    LET unique_keys == Get(config, "unique_keys", <<>>)
    IN  [i \in 1..Len(unique_keys) |->
            <<"    ", "UNIQUE", " ", "KEY", " ">> \o unique_keys[i].name \o <<" ", "(">>
            \o KeyColumns(unique_keys[i].fields, quote) \o <<")", ",">>]

IndexLines(config, quote) ==
    LET indexes == Get(config, "indexes", <<>>)
    IN  [i \in 1..Len(indexes) |->
            <<"    ", "KEY", " ">> \o QuoteName(indexes[i].name, quote) \o <<" ", "(">>
            \o KeyColumns(indexes[i].fields, quote) \o <<")">>
            \o CommentClause(Get(indexes[i], "comment", <<>>)) \o <<",">>]

StripLastComma(ddl_lines) ==
    LET last == ddl_lines[Len(ddl_lines)]
    IN  IF Len(last) > 0 /\ last[Len(last)] = ","
        THEN [ddl_lines EXCEPT ![Len(ddl_lines)] = SubSeq(last, 1, Len(last) - 1)]
        ELSE ddl_lines

ClosingLine(table_comment) ==
    IF Len(table_comment) > 0
    THEN <<")", " ", "ENGINE", "=", "InnoDB", " ", "DEFAULT", " ", "CHARSET", "=", "utf", "8",
           " ", "COMMENT", "=", Quote>> \o table_comment \o <<Quote, ";">>
    ELSE <<")", ";">>

BodyLinesKeysFirst(config, formatted, quote) ==
    PrimaryKeyLines(config, quote) \o FieldLines(formatted)
    \o UniqueKeyLines(config, quote) \o IndexLines(config, quote)

BodyLines(config, formatted, quote) ==
    FieldLines(formatted) \o PrimaryKeyLines(config, quote)
    \o UniqueKeyLines(config, quote) \o IndexLines(config, quote)

Rendered(config, quote, checked, formatted) ==
    IF IsError(checked) THEN checked
    ELSE IF IsError(formatted) THEN formatted
    ELSE Return(Join(
            StripLastComma(<< <<"create", " ", "table", " ">> \o config.table_name
                              \o <<" ", "(">> >>
                           \o BodyLines(config, formatted.value, quote))
            \o <<ClosingLine(Get(config, "table_comment", <<>>))>>,
            <<"\n">>))

DdlToSqlText(config, quote) ==
    Rendered(config, quote, CheckFields(AllFieldList(config), config.table_name),
             FormattedFields(AllFieldList(config), quote))

-----------------------------------------------------------------------------
(* sql_to_ddl.py: what the str and re primitives do on a lexeme sequence *)


(* the end of the longest run of a character class that starts at i *)
SkipSpace(s, i) == Min({j \in i..(Len(s) + 1) : ~IsSpace(At(s, j))})
WordEnd(s, i) == Min({j \in i..(Len(s) + 1) : ~IsWord(At(s, j))})
AlphaEnd(s, i) == Min({j \in i..(Len(s) + 1) : ~IsAlpha(At(s, j))})
DigitEnd(s, i) == Min({j \in i..(Len(s) + 1) : ~IsDigit(At(s, j))})
NonSpaceEnd(s, i) == Min({j \in i..(Len(s) + 1) : j = Len(s) + 1 \/ IsSpace(s[j])})
(* the first x at or after i, 0 when there is none *)
Find(s, x, i) == Min({j \in i..Len(s) : s[j] = x} \cup {Len(s) + 1}) % (Len(s) + 1)

RECURSIVE Split(_, _)
Split(s, sep) ==
    IF Find(s, sep, 1) = 0 THEN <<s>>
    ELSE <<SubSeq(s, 1, Find(s, sep, 1) - 1)>>
         \o Split(SubSeq(s, Find(s, sep, 1) + 1, Len(s)), sep)

LStripSet(s, chars) == SubSeq(s, Min({j \in 1..(Len(s) + 1) : At(s, j) \notin chars}), Len(s))
RStripSet(s, chars) == SubSeq(s, 1, Max({j \in 0..Len(s) : At(s, j) \notin chars}))
StripSet(s, chars) == RStripSet(LStripSet(s, chars), chars)
Strip(s) == StripSet(s, Whitespace)

(* A match in progress: ok, next (the lexeme the rest of the pattern starts at) and
   the groups captured so far.  Each operator below is one element of a pattern,
   applied to the match of what precedes it. *)
NoMatch == [ok |-> FALSE]
StartAt(i) == [ok |-> TRUE, next |-> i]
Advance(m, next) == [m EXCEPT !.next = next]
Capture(m, group, value, next) == (group :> value) @@ [m EXCEPT !.next = next]

(* a keyword, whatever its case *)
Kw(s, m, word) ==
    IF m.ok /\ Upper(At(s, m.next)) = word THEN Advance(m, m.next + 1) ELSE NoMatch
KwIn(s, m, words) ==
    IF m.ok /\ Upper(At(s, m.next)) \in words THEN Advance(m, m.next + 1) ELSE NoMatch
(* one given character *)
Lit(s, m, x) == IF m.ok /\ At(s, m.next) = x THEN Advance(m, m.next + 1) ELSE NoMatch
(* \s+ and \s* *)
Blanks1(s, m) ==
    IF m.ok /\ IsSpace(At(s, m.next)) THEN Advance(m, SkipSpace(s, m.next)) ELSE NoMatch
Blanks0(s, m) == IF m.ok THEN Advance(m, SkipSpace(s, m.next)) ELSE NoMatch
(* (\w+), [A-Z]+ and \d+ *)
WordGroup(s, m, group) ==
    IF m.ok /\ IsWord(At(s, m.next))
    THEN Capture(m, group, SubSeq(s, m.next, WordEnd(s, m.next) - 1), WordEnd(s, m.next))
    ELSE NoMatch
Alpha1(s, m) ==
    IF m.ok /\ IsAlpha(At(s, m.next)) THEN Advance(m, AlphaEnd(s, m.next)) ELSE NoMatch
Digits1(s, m) ==
    IF m.ok /\ IsDigit(At(s, m.next)) THEN Advance(m, DigitEnd(s, m.next)) ELSE NoMatch
(* an optional part: the attempt made from m if it matched, m otherwise *)
Opt(m, attempt) == IF attempt.ok THEN attempt ELSE m
(* an optional part that is its own group: the group is set when it matched *)
Flag(m, attempt, group) ==
    IF attempt.ok THEN Capture(attempt, group, TRUE, attempt.next) ELSE m
(* the group that spans from where m started to where the attempt ended *)
Span(s, m, attempt, group) ==
    IF attempt.ok
    THEN Capture(attempt, group, SubSeq(s, m.next, attempt.next - 1), attempt.next)
    ELSE NoMatch
(* \(([^)]+)\): a non-empty list up to the first closing parenthesis *)
ParenGroup(s, m, group) ==
    IF m.ok /\ At(s, m.next) = "(" /\ Find(s, ")", m.next + 1) > m.next + 1
    THEN Capture(m, group, SubSeq(s, m.next + 1, Find(s, ")", m.next + 1) - 1),
                 Find(s, ")", m.next + 1) + 1)
    ELSE NoMatch
(* (['"])(.*?)\1: lazily up to the first quote equal to the opening one *)
QuotedGroup(s, m, group) ==
    IF /\ m.ok /\ At(s, m.next) \in {Quote, DoubleQuote}
       /\ Find(s, At(s, m.next), m.next + 1) > 0
    THEN Capture(m, group, SubSeq(s, m.next + 1, Find(s, s[m.next], m.next + 1) - 1),
                 Find(s, s[m.next], m.next + 1) + 1)
    ELSE NoMatch
(* re.search: the match at the leftmost position that has one *)
FirstMatch(matches) ==
    IF \E i \in 1..Len(matches) : matches[i].ok
    THEN matches[Min({i \in 1..Len(matches) : matches[i].ok})]
    ELSE NoMatch

(* field.strip().strip(backtick) for field in fields_str.split(',') *)
StripEach(parts) == [i \in 1..Len(parts) |-> StripSet(Strip(parts[i]), {BackTick})]
ColumnList(fields_str) == StripEach(Split(fields_str, ","))

Unescape(comment) ==
    Replace(Replace(comment, <<BackSlash, Quote>>, <<Quote>>),
            <<BackSlash, DoubleQuote>>, <<DoubleQuote>>)

-----------------------------------------------------------------------------
(* sql_to_ddl.py: SQLParser *)

TypeMappings ==
    [INT |-> "int", BIGINT |-> "bigint", TINYINT |-> "tinyint", SMALLINT |-> "smallint",
     MEDIUMINT |-> "int", DATE |-> "date", DATETIME |-> "datetime", DECIMAL |-> "decimal",
     VARCHAR |-> "string", TEXT |-> "text", MEDIUMTEXT |-> "mediumtext", JSON |-> "json",
     CHAR |-> "string", FLOAT |-> "float", DOUBLE |-> "float"]

(* line 31: the table-name pattern at position i of sql *)
TableNameAt(sql, i) ==
    WordGroup(sql,
        Opt(Blanks1(sql, Kw(sql, Blanks1(sql, Kw(sql, StartAt(i), "CREATE")), "TABLE")),
            Lit(sql, Blanks1(sql, Kw(sql, Blanks1(sql, Kw(sql, StartAt(i), "CREATE")), "TABLE")),
                BackTick)),
        "name")

TableNameMatch(sql) == FirstMatch([i \in 1..Len(sql) |-> TableNameAt(sql, i)])

(* lines 37-40, the end of the pattern: COMMENT at k, optional blanks, =, optional
   blanks, a quote of either kind, at least one lexeme (lazily) and a quote of
   either kind *)
EitherQuoted(sql, m) ==
    IF /\ m.ok /\ At(sql, m.next) \in {Quote, DoubleQuote}
       /\ \E j \in (m.next + 2)..Len(sql) : sql[j] \in {Quote, DoubleQuote}
    THEN Capture(m, "table_comment",
                 SubSeq(sql, m.next + 1,
                        Min({j \in (m.next + 2)..Len(sql) : sql[j] \in {Quote, DoubleQuote}}) - 1),
                 m.next)
    ELSE NoMatch

CommentSuffixAt(sql, k) ==
    EitherQuoted(sql, Blanks0(sql, Lit(sql, Blanks0(sql, Kw(sql, StartAt(k), "COMMENT")), "=")))

(* anything, lazily, up to the first COMMENT from which the rest matches *)
LazyCommentSuffix(sql, m) ==
    IF m.ok
    THEN FirstMatch([k \in 1..Len(sql) |-> IF k >= m.next THEN CommentSuffixAt(sql, k)
                                           ELSE NoMatch])
    ELSE NoMatch

OptEngine(sql, m) == Opt(m, KwIn(sql, m, {"ENGINE", "TYPE"}))

(* lines 37-40: what must follow the closing parenthesis at r *)
TableSuffixAt(sql, r) ==
    LazyCommentSuffix(sql, Lit(sql, OptEngine(sql, Blanks0(sql, StartAt(r + 1))), "="))

(* lines 37-49: the body is matched greedily, from the first opening parenthesis to
   the last closing one after which the rest of the pattern matches; without a
   comment suffix, to the last closing parenthesis of the text *)
TableDefBetween(sql, open, closes, suffixes) ==
    IF closes = {} THEN NoMatch
    ELSE IF \E r \in closes : suffixes[r].ok
    THEN [ok |-> TRUE,
          table_def |-> SubSeq(sql, open + 1, Max({r \in closes : suffixes[r].ok}) - 1),
          table_comment |-> suffixes[Max({r \in closes : suffixes[r].ok})].table_comment]
    ELSE [ok |-> TRUE, table_def |-> SubSeq(sql, open + 1, Max(closes) - 1),
          table_comment |-> <<>>]

TableDefFrom(sql, open) ==
    IF open = 0 THEN NoMatch
    ELSE TableDefBetween(sql, open, {r \in (open + 1)..Len(sql) : sql[r] = ")"},
                         [r \in 1..Len(sql) |-> IF r > open /\ sql[r] = ")"
                                                THEN TableSuffixAt(sql, r) ELSE NoMatch])

TableDefMatch(sql) == TableDefFrom(sql, Find(sql, "(", 1))

(* lines 110-124 *)
UsingGroup(line, m) ==
    Opt(m, WordGroup(line, Blanks1(line, Kw(line, Blanks1(line, m), "USING")), "index_type"))

PrimaryKeyAt(line, i) ==
    UsingGroup(line,
        ParenGroup(line,
            Blanks0(line, Kw(line, Blanks1(line, Kw(line, StartAt(i), "PRIMARY")), "KEY")),
            "fields_str"))

PrimaryKeyOf(match) ==
    IF ~match.ok THEN PyNone
    ELSE [fields |-> ColumnList(match.fields_str), type |-> "primary",
          index_type |-> Get(match, "index_type", <<>>)]

ParsePrimaryKey(line) ==
    PrimaryKeyOf(FirstMatch([i \in 1..Len(line) |-> PrimaryKeyAt(line, i)]))

(* after the KEY or INDEX keyword: blanks, the key name with or without backticks,
   optional blanks and the parenthesised column list *)
OptBackTick(line, m) == Opt(m, Lit(line, m, BackTick))

NamedKey(line, m) ==
    ParenGroup(line,
        Blanks0(line, OptBackTick(line,
            WordGroup(line, OptBackTick(line, Blanks1(line, m)), "name"))),
        "fields_str")

(* lines 196-205 *)
UniqueKeyAt(line, i) ==
    NamedKey(line, Kw(line, Blanks1(line, Kw(line, StartAt(i), "UNIQUE")), "KEY"))

UniqueKeyOf(match) ==
    IF ~match.ok THEN NoMatch
    ELSE [ok |-> TRUE, value |-> [name |-> match.name, fields |-> ColumnList(match.fields_str)]]

ParseUniqueKey(line) ==
    UniqueKeyOf(FirstMatch([i \in 1..Len(line) |-> UniqueKeyAt(line, i)]))

(* lines 207-222 *)
IndexCommentGroup(line, m) ==
    Opt(m, QuotedGroup(line, Blanks1(line, Kw(line, Blanks0(line, m), "COMMENT")), "comment"))

IndexAt(line, i) ==
    IndexCommentGroup(line, NamedKey(line, KwIn(line, StartAt(i), {"KEY", "INDEX"})))

IndexOf(match) ==
    IF ~match.ok THEN NoMatch
    ELSE [ok |-> TRUE,
          value |-> [name |-> match.name, fields |-> ColumnList(match.fields_str),
                     type |-> "normal", comment |-> Unescape(Get(match, "comment", <<>>))]]

ParseIndex(line) == IndexOf(FirstMatch([i \in 1..Len(line) |-> IndexAt(line, i)]))

(* lines 164-194: _parse_field_type; int() raises on anything but digits *)
IntOf(params) ==
    IF IsDigitStr(params) THEN Return(IntOfDigits(params))
    ELSE Raise([kind |-> "ValueError", literal |-> params])

OneParam(key, n) == IF IsError(n) THEN n ELSE Return(key :> n.value)

DecimalParams(precision, scale, has_scale) ==
    IF IsError(precision) THEN precision
    ELSE IF ~has_scale THEN Return([precision |-> precision.value])
    ELSE IF IsError(scale) THEN scale
    ELSE Return([precision |-> precision.value, scale |-> scale.value])

DecimalParts(parts) == DecimalParams(IntOf(parts[1]), IntOf(At(parts, 2)), Len(parts) > 1)

TypeParams(base_type, params) ==
    IF Len(params) = 0 THEN Return(EmptyDict)
    ELSE IF base_type \in {"INT", "BIGINT", "SMALLINT", "TINYINT", "MEDIUMINT"}
    THEN OneParam("length", IntOf(params))
    ELSE IF base_type \in {"VARCHAR", "CHAR"} THEN OneParam("max_length", IntOf(params))
    ELSE IF base_type = "DECIMAL" THEN DecimalParts(Split(params, ","))
    ELSE Return(EmptyDict)

TypedField(field, unsigned, base_type, params) ==
    IF IsError(params) THEN params
    ELSE Return(field
                @@ [type |-> IF base_type \in DOMAIN TypeMappings THEN TypeMappings[base_type]
                             ELSE "string"]
                @@ (IF unsigned THEN [unsigned |-> TRUE] ELSE EmptyDict)
                @@ params.value)

(* the base type is one keyword lexeme; a run of several letters lexemes is no
   keyword of type_mappings *)
BaseType(match) ==
    IF match.next = 2 THEN match.base[1] ELSE "(no keyword)"

TypeOfMatch(field, unsigned, match) ==
    IF ~match.ok THEN Return(field @@ [type |-> "string"])
    ELSE TypedField(field, unsigned, BaseType(match),
                    TypeParams(BaseType(match), Get(match, "params", <<>>)))

TypePattern(type_str) ==
    Opt(Span(type_str, StartAt(1), Alpha1(type_str, StartAt(1)), "base"),
        Capture(ParenGroup(type_str, Alpha1(type_str, StartAt(1)), "params"), "base",
                SubSeq(type_str, 1, AlphaEnd(type_str, 1) - 1), AlphaEnd(type_str, 1)))

IsNotUnsigned(x) == x # "UNSIGNED"

ParseFieldType(field, type_str) ==
    TypeOfMatch(field, \E i \in 1..Len(type_str) : type_str[i] = "UNSIGNED",
                TypePattern(Strip(SelectSeq(type_str, IsNotUnsigned))))

(* lines 129-136: the field pattern, one operator for each part; every part after
   the type is optional and is tried where the part before it ended *)
NameGroup(line) ==
    Blanks1(line, Lit(line, WordGroup(line, Lit(line, StartAt(1), BackTick), "name"), BackTick))

SecondParam(line, m) == Opt(m, Digits1(line, Lit(line, m, ",")))

TypeParamsGroup(line, m) ==
    Opt(m, Lit(line, SecondParam(line, Digits1(line, Lit(line, m, "("))), ")"))

UnsignedGroup(line, m) == Opt(m, Kw(line, Blanks1(line, m), "UNSIGNED"))

TypeGroup(line, m) ==
    Span(line, m, UnsignedGroup(line, TypeParamsGroup(line, Alpha1(line, m))), "type")

NotNullGroup(line, m) ==
    Flag(m, Kw(line, Blanks1(line, Kw(line, Blanks1(line, m), "NOT")), "NULL"), "not_null")

(* '[^']*' first, a run of anything but blanks otherwise *)
DefaultLiteral(line, m) ==
    IF ~m.ok \/ m.next > Len(line) THEN NoMatch
    ELSE IF line[m.next] = Quote /\ Find(line, Quote, m.next + 1) > 0
    THEN Capture(m, "default", SubSeq(line, m.next, Find(line, Quote, m.next + 1)),
                 Find(line, Quote, m.next + 1) + 1)
    ELSE Capture(m, "default", SubSeq(line, m.next, NonSpaceEnd(line, m.next) - 1),
                 NonSpaceEnd(line, m.next))

DefaultGroup(line, m) ==
    Opt(m, DefaultLiteral(line, Blanks1(line, Kw(line, Blanks1(line, m), "DEFAULT"))))

AutoIncrementGroup(line, m) ==
    Flag(m, Kw(line, Lit(line, Kw(line, Blanks1(line, m), "AUTO"), "_"), "INCREMENT"),
         "auto_increment")

CommentGroup(line, m) ==
    Opt(m, QuotedGroup(line, Blanks1(line, Kw(line, Blanks1(line, m), "COMMENT")), "comment"))

FieldPattern(line) ==
    CommentGroup(line, AutoIncrementGroup(line,
        DefaultGroup(line, NotNullGroup(line, TypeGroup(line, NameGroup(line))))))

(* lines 141-162 *)
FieldOf(match) ==
    IF ~match.ok THEN [ok |-> FALSE, status |-> "ok"]
    ELSE [ok |-> TRUE] @@
         ParseFieldType(
            [name |-> match.name, comment |-> Unescape(Get(match, "comment", <<>>))]
            @@ (IF "default" \in DOMAIN match
                THEN [default |-> PyStr(StripSet(StripSet(match.default, {Quote}),
                                                 {DoubleQuote}))]
                ELSE EmptyDict)
            @@ (IF "not_null" \in DOMAIN match THEN [not_null |-> TRUE] ELSE EmptyDict)
            @@ (IF "auto_increment" \in DOMAIN match THEN [auto_increment |-> TRUE]
                ELSE EmptyDict),
            UpperStr(match.type))

ParseField(line) == FieldOf(FieldPattern(line))

(* lines 77-108 *)
LineKind(line) ==
    IF Kw(line, Blanks1(line, Kw(line, StartAt(1), "PRIMARY")), "KEY").ok THEN "primary"
    ELSE IF Kw(line, Blanks1(line, Kw(line, StartAt(1), "UNIQUE")), "KEY").ok THEN "unique"
    ELSE IF KwIn(line, StartAt(1), {"INDEX", "KEY"}).ok THEN "index"
    ELSE "field"

NotBlank(line) == Len(Strip(line)) > 0
NotEmpty(line) == Len(line) > 0
CleanLines(kept) ==
    SelectSeq([i \in 1..Len(kept) |-> Strip(RStripSet(Strip(kept[i]), {","}))], NotEmpty)
DefinitionLines(table_def) == CleanLines(SelectSeq(Split(table_def, "\n"), NotBlank))

ParseLine(line, kind) ==
    [kind |-> kind] @@
    CASE kind = "primary" -> [ok |-> TRUE, status |-> "ok", value |-> ParsePrimaryKey(line)]
      [] kind = "unique" -> ParseUniqueKey(line) @@ [status |-> "ok"]
      [] kind = "index" -> ParseIndex(line) @@ [status |-> "ok"]
      [] OTHER -> ParseField(line)

RECURSIVE ValuesOf(_, _)
ValuesOf(parsed, kind) ==
    IF Len(parsed) = 0 THEN <<>>
    ELSE (IF parsed[1].kind = kind /\ parsed[1].ok THEN <<parsed[1].value>> ELSE <<>>)
         \o ValuesOf(Tail(parsed), kind)

LastOrNone(primaries) == IF Len(primaries) = 0 THEN PyNone ELSE primaries[Len(primaries)]

Definition(parsed) ==
    IF \E i \in 1..Len(parsed) : IsError(parsed[i])
    THEN [status |-> "error",
          error |-> parsed[Min({i \in 1..Len(parsed) : IsError(parsed[i])})].error]
    ELSE Return([fields |-> ValuesOf(parsed, "field"),
                 unique_keys |-> ValuesOf(parsed, "unique"),
                 indexes |-> ValuesOf(parsed, "index"),
                 pk_info |-> LastOrNone(ValuesOf(parsed, "primary"))])

ParsedLines(lines) == [i \in 1..Len(lines) |-> ParseLine(lines[i], LineKind(lines[i]))]

ParseTableDefinition(table_def) == Definition(ParsedLines(DefinitionLines(table_def)))

(* lines 224-247 *)
IndexFields(indexes) ==
    UNION {{indexes[i].fields[j] : j \in 1..Len(indexes[i].fields)} :
           i \in {n \in 1..Len(indexes) : Get(indexes[n], "type", "") = "normal"}}

RECURSIVE Select(_, _, _)
Select(fields, names, wanted) ==
    IF Len(fields) = 0 THEN <<>>
    ELSE (IF (fields[1].name \in names) = wanted THEN <<fields[1]>> ELSE <<>>)
         \o Select(Tail(fields), names, wanted)

ClassifyByIndexFieldsNoKeys(fields, index_fields) ==
    [key_fields |-> <<>>,
     value_fields |-> fields,
     status_fields |-> <<>>]

ClassifyByIndexFields(fields, index_fields) ==
    [key_fields |-> Select(fields, index_fields, TRUE),
     value_fields |-> Select(fields, index_fields, FALSE),
     status_fields |-> <<>>]

ClassifyFields(fields, indexes) == ClassifyByIndexFields(fields, IndexFields(indexes))

(* lines 54-75 *)
PkSet(pk_info) ==
    IF pk_info # PyNone THEN {pk_info.fields[i] : i \in 1..Len(pk_info.fields)} ELSE {}

Classified(table_name, table_comment, definition, pk_set, classified) ==
    [table_name |-> table_name,
     table_comment |-> table_comment,
     id_fields |-> IF definition.pk_info # PyNone THEN Select(definition.fields, pk_set, TRUE)
                   ELSE <<>>,
     key_fields |-> classified.key_fields,
     value_fields |-> classified.value_fields,
     status_fields |-> classified.status_fields,
     unique_keys |-> definition.unique_keys,
     indexes |-> definition.indexes,
     primary_key |-> definition.pk_info]

TableRecord(table_name, table_comment, definition, pk_set) ==
    Classified(table_name, table_comment, definition, pk_set,
               ClassifyFields(Select(definition.fields, pk_set, FALSE), definition.indexes))

TableOf(table_name, table_comment, definition) ==
    IF IsError(definition) THEN definition
    ELSE Return(TableRecord(table_name, table_comment, definition.value,
                            PkSet(definition.value.pk_info)))

(* lines 28-52 *)
TableFrom(table_name_match, table_def_match) ==
    IF ~table_name_match.ok
    THEN Raise([kind |-> "UnparsableStatement", what |-> "table name"])
    ELSE IF ~table_def_match.ok
    THEN Raise([kind |-> "UnparsableStatement", what |-> "table definition"])
    ELSE TableOf(table_name_match.name, table_def_match.table_comment,
                 ParseTableDefinition(table_def_match.table_def))

(* lines 250-261 *)
SqlToDdl(sql) == TableFrom(TableNameMatch(sql), TableDefMatch(sql))

-----------------------------------------------------------------------------
(* The inputs: schema records for ddl_to_sql *)

MaxCols == 3          \* columns of a schema of the naming family
MaxCommentLen == 2    \* lexemes of a generated comment
MaxDefaultLen == 2    \* lexemes of a generated string default
MaxTestLines == 2     \* column lines of a statement read by the test program

BoundedSeqs(S, n) == UNION {[1..k -> S] : k \in 0..n}
Optional(key, values) == {EmptyDict} \cup {key :> v : v \in values}

NameA == <<"a">>
NameB == <<"b">>
NameC == <<"c">>
BadName == <<"1", "a">>
TableNames == {<<"t">>, <<"u", "_", "1">>}

Comments == BoundedSeqs({"a", Quote}, MaxCommentLen) \cup {<<"i", "t", Quote, "s">>}
Defaults ==
    {PyStr(d) : d \in BoundedSeqs({"5", "a"}, MaxDefaultLen)} \cup {PyNone, PyInt(0), PyInt(42)}

Schema(table_name, table_comment, groups, primary_key, unique_keys, indexes) ==
    [table_name |-> table_name, table_comment |-> table_comment,
     id_fields |-> groups[1], key_fields |-> groups[2], value_fields |-> groups[3],
     status_fields |-> groups[4],
     unique_keys |-> unique_keys, indexes |-> indexes, primary_key |-> primary_key]

OneColumn(field) == Schema(<<"t">>, <<>>, <<<<>>, <<>>, <<field>>, <<>>>>, PyNone, <<>>, <<>>)

(* one int(11) column with every combination of the optional clauses *)
ClauseColumns ==
    {[name |-> NameA, type |-> "int", length |-> 11, comment |-> c] @@ u @@ n @@ a @@ d :
        c \in Comments, u \in Optional("unsigned", {TRUE}), n \in Optional("not_null", {TRUE}),
        a \in Optional("auto_increment", {TRUE}), d \in Optional("default", Defaults)}
ClauseSchemas == {OneColumn(f) : f \in ClauseColumns}

(* one column of every logical type, with and without its mandatory parameter *)
EnumCounts == {0, 1, 2, TinyMax, TinyMax + 1, SmallMax, SmallMax + 1, MediumMax, MediumMax + 1}
TypeParts ==
    {[type |-> t] @@ l : t \in {"int", "bigint", "smallint", "tinyint", "INT"},
                         l \in Optional("length", {11})}
    \cup {[type |-> "string"] @@ l : l \in Optional("max_length", {255})}
    \cup {[type |-> t] : t \in {"date", "datetime", "DATETIME", "json", "text", "mediumtext",
                                "float"}}
    \cup {[type |-> "decimal"] @@ pr @@ sc : pr \in Optional("precision", {12}),
                                             sc \in Optional("scale", {4})}
    \cup {[type |-> "enum"] @@ e : e \in Optional("enum_values", EnumCounts)}
TypeColumns ==
    {[name |-> NameA, comment |-> <<>>] @@ t @@ u @@ r :
        t \in TypeParts, u \in Optional("unsigned", {TRUE}), r \in Optional("required", {TRUE})}
TypeSchemas ==
    {Schema(tn, <<>>, <<<<>>, <<>>, <<f>>, <<>>>>, PyNone, <<>>, <<>>) :
        tn \in TableNames, f \in TypeColumns}

(* up to MaxCols date columns spread over the four groups, names repeated or invalid *)
DateColumn(name) == [name |-> name, type |-> "date", comment |-> <<>>]
NameLists == BoundedSeqs({NameA, NameB, BadName}, MaxCols)
Cuts(n) == {c \in (0..n) \X (0..n) \X (0..n) : c[1] <= c[2] /\ c[2] <= c[3]}
Grouped(names, c) ==
    LET fields == [i \in 1..Len(names) |-> DateColumn(names[i])]
    IN  <<SubSeq(fields, 1, c[1]), SubSeq(fields, c[1] + 1, c[2]),
          SubSeq(fields, c[2] + 1, c[3]), SubSeq(fields, c[3] + 1, Len(fields))>>
NamingSchemas ==
    UNION {{Schema(<<"t">>, <<>>, Grouped(names, c), PyNone, <<>>, <<>>) :
                c \in Cuts(Len(names))} : names \in NameLists}
    \cup {OneColumn(DateColumn(n)) : n \in {<<>>, <<"a", " ">>, <<"_", "a", "1">>}}

(* three columns with every combination of primary key, unique keys and indexes *)
PrimaryKey(fields, index_type) ==
    [fields |-> fields, type |-> "primary", index_type |-> index_type]
Index(name, fields, comment) ==
    [name |-> name, fields |-> fields, type |-> "normal", comment |-> comment]
UniqueKey(name, fields) == [name |-> name, fields |-> fields]
PrimaryKeys ==
    {PyNone, PrimaryKey(<<>>, <<>>), PrimaryKey(<<NameA>>, <<>>),
     PrimaryKey(<<NameA>>, <<"btree">>), PrimaryKey(<<NameA, NameB>>, <<"BTREE">>)}
UniqueKeyLists ==
    {<<>>, <<UniqueKey(<<"u", "k">>, <<NameC>>)>>,
     <<UniqueKey(<<"u", "k">>, <<NameC>>), UniqueKey(<<"u", "k", "2">>, <<NameA, NameC>>)>>}
IndexLists ==
    {<<>>, <<Index(<<"i", "x">>, <<NameB>>, <<>>)>>,
     <<Index(<<"i", "x">>, <<NameB>>, <<"a", Quote>>), Index(<<"i", "x", "2">>, <<NameB, NameA>>, <<"a">>)>>,
     <<[name |-> <<"i", "x">>, fields |-> <<NameC>>]>>}
TableComments == {<<>>, <<"a">>, <<"a", Quote, "a">>}
KeyGroups ==
    {<<<<DateColumn(NameA)>>, <<DateColumn(NameB)>>, <<DateColumn(NameC)>>, <<>>>>,
     <<<<>>, <<DateColumn(NameB), DateColumn(NameA)>>, <<>>, <<DateColumn(NameC)>>>>}
KeySchemas ==
    {Schema(<<"t">>, tc, g, pk, uks, ixs) :
        tc \in TableComments, g \in KeyGroups, pk \in PrimaryKeys, uks \in UniqueKeyLists,
        ixs \in IndexLists}

(* the same schemas written without the table_comment key *)
Without(config, key) == [k \in DOMAIN config \ {key} |-> config[k]]
UncommentedSchemas ==
    {Without(s, "table_comment") : s \in {k \in KeySchemas : k.table_comment = <<>> /\ k.unique_keys = <<>>}}

Schemas == ClauseSchemas \cup TypeSchemas \cup NamingSchemas \cup KeySchemas \cup UncommentedSchemas

-----------------------------------------------------------------------------
(* The driver: a caller renders a schema and parses the text back *)

Init ==
    /\ pc = "schema"
    /\ table_config \in Schemas
    /\ quote_field_names = TRUE
    /\ sql_str = NotCalled
    /\ ddl_data = NotCalled
    /\ sql_str_2 = NotCalled
    /\ ddl_data_2 = NotCalled

(* ddl_to_sql(table_config, quote_field_names) *)
DdlToSql ==
    /\ pc = "schema"
    /\ \E quote \in BOOLEAN :
        /\ quote_field_names' = quote
        /\ sql_str' = DdlToSqlText(table_config, quote)
    /\ pc' = IF IsOk(sql_str') THEN "sql" ELSE "raised"
    /\ UNCHANGED <<table_config, ddl_data, sql_str_2, ddl_data_2>>

(* sql_to_ddl(sql) on the text at hand *)
SqlToDdlCall ==
    /\ pc = "sql"
    /\ ddl_data' = SqlToDdl(sql_str.value)
    /\ pc' = IF IsOk(ddl_data') THEN "ddl" ELSE "raised"
    /\ UNCHANGED <<table_config, quote_field_names, sql_str, sql_str_2, ddl_data_2>>

Next == DdlToSql \/ SqlToDdlCall

Spec == Init /\ [][Next]_vars

-----------------------------------------------------------------------------
(* The inputs: CREATE TABLE statements for the test program *)

TypeTexts ==
    {<<"INT", "(", "1", "1", ")">>, <<"INT">>, <<"int", "(", "1", "1", ")">>,
     <<"BIGINT", "(", "2", "0", ")">>, <<"TINYINT", "(", "4", ")">>,
     <<"MEDIUMINT", "(", "8", ")">>, <<"INT", "(", "1", ",", "2", ")">>,
     <<"INT", "(", "1", "0", ")", " ", "UNSIGNED">>,
     <<"VARCHAR", "(", "3", ")">>, <<"VARCHAR">>, <<"CHAR", "(", "3", ")">>,
     <<"DATE">>, <<"DATETIME">>, <<"TEXT">>, <<"JSON">>, <<"FLOAT">>, <<"DOUBLE">>,
     <<"TIMESTAMP">>,
     <<"DECIMAL", "(", "1", "0", ",", "2", ")">>, <<"DECIMAL", "(", "5", ")">>,
     <<"DECIMAL">>}
ClauseTexts ==
    {<<" ", "NOT", " ", "NULL">>,
     <<" ", "DEFAULT", " ", "5">>,
     <<" ", "DEFAULT", " ", "NULL">>,
     <<" ", "DEFAULT", " ", Quote, "a", Quote>>,
     <<" ", "NOT", " ", "NULL", " ", "AUTO", "_", "INCREMENT">>,
     <<" ", "NOT", " ", "NULL", " ", "DEFAULT", " ", "0", " ", "AUTO", "_", "INCREMENT">>,
     <<" ", "COMMENT", " ", Quote, "a", Quote>>,
     <<" ", "COMMENT", " ", DoubleQuote, "a", DoubleQuote>>,
     <<" ", "COMMENT", " ", Quote, "a", BackSlash, Quote, "a", Quote>>,
     <<" ", "AUTO", "_", "INCREMENT", " ", "COMMENT", " ", Quote, "a", Quote>>}
ColumnTexts ==
    {t : t \in TypeTexts} \cup {<<"INT", "(", "1", "1", ")">> \o c : c \in ClauseTexts}
ColumnLine(name, column_text) ==
    <<"    ", BackTick>> \o name \o <<BackTick, " ">> \o column_text \o <<",">>
KeyTexts ==
    {<<>>,
     << <<"    ", "PRIMARY", " ", "KEY", " ", "(", BackTick, "a", BackTick, ")", ",">> >>,
     << <<"    ", "PRIMARY", " ", "KEY", " ", "(", BackTick, "a", BackTick, ")", " ", "USING",
          " ", "BTREE", ",">>,
        <<"    ", "UNIQUE", " ", "KEY", " ", BackTick, "u", "k", BackTick, " ", "(", BackTick,
          "b", BackTick, ")", ",">>,
        <<"    ", "KEY", " ", BackTick, "i", "x", BackTick, " ", "(", BackTick, "b", BackTick,
          ",", BackTick, "a", BackTick, ")", ",">> >>,
     << <<"    ", "UNIQUE", " ", "KEY", " ", "u", "k", " ", "(", BackTick, "b", BackTick, ")",
          ",">> >>,
     << <<"    ", "INDEX", " ", "i", "x", " ", "(", "a", ")", " ", "COMMENT", " ", Quote, "a",
          Quote, ",">>,
        <<"    ", "FOREIGN", " ", "KEY", " ", "(", "a", ")", ",">> >>}
Endings ==
    {<<")", ";">>,
     <<")", " ", "ENGINE", "=", "InnoDB", " ", "COMMENT", "=", Quote, "a", Quote, ";">>}
Headers ==
    {<<"CREATE", " ", "TABLE", " ", BackTick, "t", BackTick, " ", "(">>,
     <<"create", " ", "table", " ", "t", " ", "(">>}
OtherColumnTexts ==
    {<<"VARCHAR", "(", "3", ")">>, <<"INT">>, <<"FLOAT">>}
ColumnNames == <<NameA, NameB, NameC, NameA>>
ColumnLineLists ==
    UNION {{[i \in 1..k |-> ColumnLine(ColumnNames[i], IF i = 1 THEN first ELSE others[i])]
            : first \in ColumnTexts, others \in [1..k -> OtherColumnTexts]}
           : k \in 1..MaxTestLines}
Statement(header, column_lines, key_lines, ending) ==
    Join(StripLastComma(<<header>> \o column_lines \o key_lines) \o <<ending>>, <<"\n">>)
Statements ==
    {Statement(h, c, k, e) : h \in Headers, c \in ColumnLineLists, k \in KeyTexts, e \in Endings}
    \cup {<<"DROP", " ", "TABLE", " ", "t", ";">>, <<"CREATE", " ", "TABLE", " ", "t", ";">>}

-----------------------------------------------------------------------------
(* The driver of sql_to_ddl_test.py, lines 22-42: parse a statement, render the
   record, parse the rendered text again *)

InitTest ==
    /\ pc = "sql"
    /\ table_config = PyNone
    /\ quote_field_names = TRUE
    /\ sql_str \in {Return(sql) : sql \in Statements}
    /\ ddl_data = NotCalled
    /\ sql_str_2 = NotCalled
    /\ ddl_data_2 = NotCalled

(* sql_str_2 = ddl_to_sql(ddl_data_1) *)
DdlToSqlAgain ==
    /\ pc = "ddl"
    /\ sql_str_2' = DdlToSqlText(ddl_data.value, TRUE)
    /\ pc' = IF IsOk(sql_str_2') THEN "sql_2" ELSE "raised"
    /\ UNCHANGED <<table_config, quote_field_names, sql_str, ddl_data, ddl_data_2>>

(* ddl_data_2 = sql_to_ddl(sql_str_2) *)
SqlToDdlAgain ==
    /\ pc = "sql_2"
    /\ ddl_data_2' = SqlToDdl(sql_str_2.value)
    /\ pc' = IF IsOk(ddl_data_2') THEN "done" ELSE "raised"
    /\ UNCHANGED <<table_config, quote_field_names, sql_str, ddl_data, sql_str_2>>

NextTest == SqlToDdlCall \/ DdlToSqlAgain \/ SqlToDdlAgain

SpecTest == InitTest /\ [][NextTest]_vars

-----------------------------------------------------------------------------
(* What the claims speak of: the columns, names and lines of a schema and of a
   rendered text *)

Range(s) == {s[i] : i \in 1..Len(s)}
Contains(s, sub) == \E i \in 1..(Len(s) - Len(sub) + 1) : SubSeq(s, i, i + Len(sub) - 1) = sub
Columns(config) ==
    config.id_fields \o config.key_fields \o config.value_fields \o config.status_fields
ColumnNamesOf(fields) == [i \in 1..Len(fields) |-> fields[i].name]
HasRepeat(names) == \E i, j \in 1..Len(names) : i < j /\ names[i] = names[j]
KeyNames(key) == IF key = PyNone THEN {} ELSE Range(key.fields)
IndexedNames(indexes) == UNION {Range(indexes[i].fields) : i \in 1..Len(indexes)}
TextLines(text) == Split(text, "\n")

(* the accepted subset, read narrowly: valid unique names, a type of the registry
   with its parameters, string defaults, no status group, keys that name declared
   columns, and columns grouped the way the parser groups them *)
AcceptedColumn(f) ==
    /\ IsIdentifier(f.name)
    /\ "required" \notin DOMAIN f
    /\ ("default" \in DOMAIN f => f.default.kind = "str")
    /\ \/ f.type \in {"int", "bigint", "smallint", "tinyint"} /\ "length" \in DOMAIN f
       \/ f.type = "string" /\ "max_length" \in DOMAIN f
       \/ f.type = "decimal" /\ "precision" \in DOMAIN f /\ "scale" \in DOMAIN f
       \/ f.type \in {"date", "datetime", "json", "text", "mediumtext"}
    /\ ("unsigned" \in DOMAIN f => f.type \in {"int", "bigint", "smallint", "tinyint", "decimal"})
AcceptedKeys(config) ==
    /\ config.primary_key # PyNone =>
          /\ Len(config.primary_key.fields) > 0
          /\ config.primary_key.index_type = UpperStr(config.primary_key.index_type)
    /\ \A i \in 1..Len(config.indexes) : DOMAIN config.indexes[i] = DOMAIN Index(<<>>, <<>>, <<>>)
    /\ KeyNames(config.primary_key) \cup IndexedNames(config.indexes)
          \cup IndexedNames(config.unique_keys) \subseteq Range(ColumnNamesOf(Columns(config)))
    /\ Range(ColumnNamesOf(config.id_fields)) = KeyNames(config.primary_key)
    /\ Range(ColumnNamesOf(config.key_fields))
          = IndexedNames(config.indexes) \ KeyNames(config.primary_key)
AcceptedSchema(config) ==
    /\ "table_comment" \in DOMAIN config
    /\ \A i \in 1..Len(Columns(config)) : AcceptedColumn(Columns(config)[i])
    /\ ~HasRepeat(ColumnNamesOf(Columns(config)))
    /\ config.status_fields = <<>>
    /\ AcceptedKeys(config)

-----------------------------------------------------------------------------
(* C1: for every schema S of the accepted subset and either setting of the
   quoting switch, sql_to_ddl(ddl_to_sql(S)) returns a record equal to S. *)
C1_RoundTrip ==
    (AcceptedSchema(table_config) /\ pc \in {"ddl", "raised"})
        => (IsOk(ddl_data) /\ ddl_data.value = table_config)

(* C1: the round trip does hold for some schemas with keys *)
C1_RoundTripKept ==
    /\ pc = "ddl" /\ AcceptedSchema(table_config) /\ ddl_data.value = table_config
    /\ table_config.primary_key # PyNone /\ Len(table_config.indexes) > 0

(* C1: an accepted one-column schema rendered without backticks comes back with
   no column at all *)
C1_ColumnsLost ==
    /\ pc = "ddl" /\ AcceptedSchema(table_config) /\ ~quote_field_names
    /\ Len(Columns(table_config)) = 1
    /\ Len(Columns(ddl_data.value)) = 0

(* C1: with backticks, an accepted auto-increment column with a default comes
   back without the default *)
C1_DefaultLost ==
    /\ pc = "ddl" /\ AcceptedSchema(table_config) /\ quote_field_names
    /\ Len(Columns(table_config)) = 1
    /\ "default" \in DOMAIN Columns(table_config)[1]
    /\ Len(Columns(ddl_data.value)) = 1
    /\ "default" \notin DOMAIN Columns(ddl_data.value)[1]

-----------------------------------------------------------------------------
(* C2: a column comment or index comment c holding single quotes is rendered as
   COMMENT followed by c in single quotes with a backslash before each of its
   quotes, and sql_to_ddl on that text returns exactly c.  Read narrowly: the
   text is rendered with backticks and the column has no clause but the comment. *)
Escaped(c) == Flatten([i \in 1..Len(c) |-> IF c[i] = Quote THEN <<BackSlash, Quote>> ELSE <<c[i]>>])
QuotedComment(c) == <<"COMMENT", " ", Quote>> \o Escaped(c) \o <<Quote>>
CommentOnly(f) == DOMAIN f = {"name", "type", "length", "comment"}
CommentsOf(items) == {Get(items[i], "comment", <<>>) : i \in 1..Len(items)}
QuoteComments(items) == {c \in CommentsOf(items) : Quote \in Range(c)}
C2_CommentRoundTrip ==
    (pc = "ddl" /\ quote_field_names /\ AcceptedSchema(table_config)
     /\ \A i \in 1..Len(Columns(table_config)) : CommentOnly(Columns(table_config)[i]))
        => /\ \A c \in QuoteComments(Columns(table_config)) \cup QuoteComments(table_config.indexes) :
                  Contains(sql_str.value, QuotedComment(c))
           /\ CommentsOf(Columns(ddl_data.value)) = CommentsOf(Columns(table_config))
           /\ CommentsOf(ddl_data.value.indexes) = CommentsOf(table_config.indexes)

(* C2: the comment it's is rendered with its quote escaped, and read back cut
   at the backslash *)
C2_CommentCut ==
    /\ pc = "ddl" /\ quote_field_names /\ AcceptedSchema(table_config)
    /\ Len(Columns(table_config)) = 1 /\ CommentOnly(Columns(table_config)[1])
    /\ Columns(table_config)[1].comment = <<"i", "t", Quote, "s">>
    /\ Contains(sql_str.value, <<"COMMENT", " ", Quote, "i", "t", BackSlash, Quote, "s", Quote>>)
    /\ Len(Columns(ddl_data.value)) = 1
    /\ Columns(ddl_data.value)[1].comment = <<"i", "t", BackSlash>>

(* C2: an index comment with a quote is read back cut in the same way *)
C2_IndexCommentCut ==
    /\ pc = "ddl" /\ quote_field_names /\ AcceptedSchema(table_config)
    /\ \E i \in 1..Len(table_config.indexes) :
          /\ table_config.indexes[i].comment = <<"a", Quote>>
          /\ Len(ddl_data.value.indexes) >= i
          /\ ddl_data.value.indexes[i].comment = <<"a", BackSlash>>

-----------------------------------------------------------------------------
(* C3: whenever sql_to_ddl accepts a statement, ddl_to_sql of the record does
   not raise, and parsing the rendered text gives the same record again. *)
C3_FixedPoint ==
    IsOk(ddl_data) =>
        /\ ~IsError(sql_str_2)
        /\ ~IsError(ddl_data_2)
        /\ IsOk(ddl_data_2) => ddl_data_2.value = ddl_data.value

(* C3: a parsed column of type int without a length makes ddl_to_sql raise *)
C3_RenderRaises ==
    /\ pc = "raised" /\ IsOk(ddl_data) /\ IsError(sql_str_2)
    /\ sql_str_2.error.kind = "MissingParameter"

(* C3: a statement whose second parse gives another record than the first *)
C3_SecondParseDiffers ==
    pc = "done" /\ ddl_data_2.value # ddl_data.value

(* C3: a statement on which the fixed point holds, keys included *)
C3_FixedPointKept ==
    /\ pc = "done" /\ ddl_data_2.value = ddl_data.value
    /\ ddl_data.value.primary_key # PyNone /\ Len(ddl_data.value.key_fields) > 0

-----------------------------------------------------------------------------
(* C4: an enum column with n values, n at least 1, is rendered with the keyword
   TINYINT up to 255 values, SMALLINT from 256 to 65535, MEDIUMINT from 65536 to
   16777215 and INT from 16777216 on; with no value, rendering fails.  The
   keyword is compared without regard to case: ddl_to_sql.py writes it in
   lower case. *)
Rendering == pc # "schema"
OnlyColumn(config) == Columns(config)[1]
NameEnd(line) == IF line[2] = BackTick THEN Find(line, BackTick, 3) + 1 ELSE Find(line, " ", 2)
TypeKeyword(line) == Upper(line[NameEnd(line) + 1])
OneEnumColumn ==
    /\ Len(Columns(table_config)) = 1
    /\ OnlyColumn(table_config).type = "enum"
    /\ IsIdentifier(OnlyColumn(table_config).name)
EnumCount == Get(OnlyColumn(table_config), "enum_values", 0)
C4_EnumSizing ==
    (Rendering /\ OneEnumColumn) =>
        IF EnumCount = 0 THEN IsError(sql_str)
        ELSE /\ IsOk(sql_str)
             /\ TypeKeyword(TextLines(sql_str.value)[2]) =
                   (IF EnumCount <= 255 THEN "TINYINT"
                    ELSE IF EnumCount <= 65535 THEN "SMALLINT"
                    ELSE IF EnumCount <= 16777215 THEN "MEDIUMINT"
                    ELSE "INT")

(* C4: an enum column of exactly 65536 values has been rendered as MEDIUMINT *)
C4_EnumBoundary ==
    /\ Rendering /\ OneEnumColumn /\ EnumCount = 65536 /\ IsOk(sql_str)
    /\ TypeKeyword(TextLines(sql_str.value)[2]) = "MEDIUMINT"

-----------------------------------------------------------------------------
(* C5, as stated: a column name that occurs twice in the four groups makes
   ddl_to_sql raise DuplicateField naming the table and the field; with no
   repeated name and only valid names ddl_to_sql raises neither error. *)
AllNames == ColumnNamesOf(AllFieldList(table_config))
IsNameError(r) == IsError(r) /\ r.error.kind \in {"DuplicateField", "InvalidIdentifier"}
RaisesDuplicate(r, name) ==
    /\ IsError(r)
    /\ r.error.kind = "DuplicateField"
    /\ r.error.table = table_config.table_name
    /\ r.error.field = name
C5_DuplicateAlwaysRaises ==
    Rendering =>
        /\ HasRepeat(AllNames) =>
              \E i, j \in 1..Len(AllNames) :
                  i < j /\ AllNames[i] = AllNames[j] /\ RaisesDuplicate(sql_str, AllNames[j])
        /\ (~HasRepeat(AllNames) /\ \A i \in 1..Len(AllNames) : IsIdentifier(AllNames[i]))
              => ~IsNameError(sql_str)

(* C5, amended: the names are tested in order, each first for being an
   identifier and then for having occurred before.  When a name repeats and
   every name up to its first repetition is an identifier, ddl_to_sql raises
   DuplicateField naming the table and that name; when a name that is no
   identifier comes at or before the first repetition, it raises
   InvalidIdentifier for that name instead.  With no repeated name and only
   valid names ddl_to_sql raises neither error. *)
FirstRepeat(names) == Min({j \in 1..Len(names) : \E i \in 1..(j - 1) : names[i] = names[j]})
C5_DuplicateRaisesAfterValidNames ==
    Rendering =>
        /\ HasRepeat(AllNames) =>
              IF \A k \in 1..FirstRepeat(AllNames) : IsIdentifier(AllNames[k])
              THEN RaisesDuplicate(sql_str, AllNames[FirstRepeat(AllNames)])
              ELSE /\ IsError(sql_str)
                   /\ sql_str.error.kind = "InvalidIdentifier"
                   /\ sql_str.error.table = table_config.table_name
                   /\ \E k \in 1..FirstRepeat(AllNames) :
                         ~IsIdentifier(AllNames[k]) /\ sql_str.error.field = AllNames[k]
        /\ (~HasRepeat(AllNames) /\ \A i \in 1..Len(AllNames) : IsIdentifier(AllNames[i]))
              => ~IsNameError(sql_str)

(* C5: a name repeated across two different groups has raised DuplicateField *)
C5_DuplicateAcrossGroups ==
    /\ Rendering
    /\ \E i \in 1..Len(table_config.id_fields), j \in 1..Len(table_config.status_fields) :
          table_config.id_fields[i].name = table_config.status_fields[j].name
    /\ RaisesDuplicate(sql_str, table_config.id_fields[1].name)

-----------------------------------------------------------------------------
(* C6: rendering a schema with an int, bigint, smallint or tinyint column
   without length, a string column without max_length or an enum column without
   enum_values fails with MissingParameter naming the table and the field, and
   gives no text. *)
LacksParameter(f) ==
    \/ f.type \in {"int", "bigint", "smallint", "tinyint"} /\ "length" \notin DOMAIN f
    \/ f.type = "string" /\ "max_length" \notin DOMAIN f
    \/ f.type = "enum" /\ "enum_values" \notin DOMAIN f
OneColumnLackingParameter ==
    /\ Len(Columns(table_config)) = 1
    /\ IsIdentifier(OnlyColumn(table_config).name)
    /\ LacksParameter(OnlyColumn(table_config))
C6_MissingParameterNamesTableAndField ==
    (Rendering /\ OneColumnLackingParameter) =>
        /\ IsError(sql_str)
        /\ sql_str.error.kind = "MissingParameter"
        /\ "table" \in DOMAIN sql_str.error
        /\ sql_str.error.table = table_config.table_name
        /\ "field" \in DOMAIN sql_str.error
        /\ sql_str.error.field = OnlyColumn(table_config).name

(* C6: an int column without length has raised an error that names the field
   and not the table *)
C6_TableNotNamed ==
    /\ Rendering /\ OneColumnLackingParameter
    /\ OnlyColumn(table_config).type = "int"
    /\ IsError(sql_str)
    /\ DOMAIN sql_str.error = {"kind", "param", "field"}

(* C6: an enum column without values has raised an error that names neither *)
C6_EnumNamesNeither ==
    /\ Rendering /\ OneColumnLackingParameter
    /\ OnlyColumn(table_config).type = "enum"
    /\ IsError(sql_str)
    /\ DOMAIN sql_str.error = {"kind", "param"}

-----------------------------------------------------------------------------
(* C7: a string default d is rendered as DEFAULT d without quotes exactly when
   d is not empty and all its characters are digits, and as DEFAULT followed by
   d in single quotes otherwise; an absent or null default renders no DEFAULT
   clause. *)
AllDigits(d) == Len(d) > 0 /\ \A i \in 1..Len(d) : d[i] \in Digits
EndsClause(line, sub) ==
    \E i \in 1..(Len(line) - Len(sub) + 1) :
        /\ SubSeq(line, i, i + Len(sub) - 1) = sub
        /\ (i + Len(sub) > Len(line) \/ line[i + Len(sub)] = " ")
OneClauseColumn ==
    /\ Len(Columns(table_config)) = 1
    /\ OnlyColumn(table_config).type = "int"
    /\ "length" \in DOMAIN OnlyColumn(table_config)
    /\ IsIdentifier(OnlyColumn(table_config).name)
DefaultOf(f) == Get(f, "default", PyNone)
C7_DefaultQuoting ==
    (Rendering /\ OneClauseColumn) =>
        /\ IsOk(sql_str)
        /\ DefaultOf(OnlyColumn(table_config)) = PyNone =>
              "DEFAULT" \notin Range(TextLines(sql_str.value)[2])
        /\ DefaultOf(OnlyColumn(table_config)).kind = "str" =>
              LET d == DefaultOf(OnlyColumn(table_config)).val
              IN  IF AllDigits(d)
                  THEN EndsClause(TextLines(sql_str.value)[2], <<" ", "DEFAULT", " ">> \o d)
                  ELSE EndsClause(TextLines(sql_str.value)[2],
                                  <<" ", "DEFAULT", " ", Quote>> \o d \o <<Quote>>)

(* C7: the default 5 has been rendered without quotes *)
C7_DigitsUnquoted ==
    /\ Rendering /\ OneClauseColumn /\ IsOk(sql_str)
    /\ DefaultOf(OnlyColumn(table_config)) = PyStr(<<"5">>)
    /\ Contains(sql_str.value, <<" ", "DEFAULT", " ", "5">>)
    /\ Quote \notin Range(sql_str.value)

-----------------------------------------------------------------------------
(* C8: the body of the rendered text holds the column definitions in the order
   of the id, key, value and status groups, then PRIMARY KEY if there is one,
   then each UNIQUE KEY in list order, then each KEY in list order; every body
   line but the last ends with a comma and the last one does not. *)
BodyOf(text_lines) == SubSeq(text_lines, 2, Len(text_lines) - 1)
NameOnLine(line) ==
    IF line[2] = BackTick THEN SubSeq(line, 3, Find(line, BackTick, 3) - 1)
    ELSE SubSeq(line, 2, Find(line, " ", 2) - 1)
KeyNameOnLine(line, at) ==
    IF line[at] = BackTick THEN SubSeq(line, at + 1, Find(line, BackTick, at + 1) - 1)
    ELSE SubSeq(line, at, Find(line, " ", at) - 1)
ClauseOf(line) ==
    IF line[2] = "PRIMARY" THEN <<"primary key">>
    ELSE IF line[2] = "UNIQUE" THEN <<"unique key", KeyNameOnLine(line, 6)>>
    ELSE IF line[2] = "KEY" THEN <<"key", KeyNameOnLine(line, 4)>>
    ELSE <<"column", NameOnLine(line)>>
ClausesOf(body) == [i \in 1..Len(body) |-> ClauseOf(body[i])]
HasPrimaryKey(config) == config.primary_key # PyNone /\ Len(config.primary_key.fields) > 0
ExpectedClauses(config) ==
    [i \in 1..Len(Columns(config)) |-> <<"column", Columns(config)[i].name>>]
    \o (IF HasPrimaryKey(config) THEN << <<"primary key">> >> ELSE <<>>)
    \o [i \in 1..Len(config.unique_keys) |-> <<"unique key", config.unique_keys[i].name>>]
    \o [i \in 1..Len(config.indexes) |-> <<"key", config.indexes[i].name>>]
EndsWithComma(line) == Len(line) > 0 /\ line[Len(line)] = ","
C8_ClauseOrderAndCommas ==
    (Rendering /\ IsOk(sql_str)) =>
        LET body == BodyOf(TextLines(sql_str.value))
        IN  /\ ClausesOf(body) = ExpectedClauses(table_config)
            /\ \A i \in 1..Len(body) : EndsWithComma(body[i]) <=> i < Len(body)

(* C8: a text with columns of several groups, a primary key, two unique keys
   and two indexes has been rendered *)
C8_AllClauseKinds ==
    /\ Rendering /\ IsOk(sql_str)
    /\ Len(table_config.id_fields) > 0 /\ Len(table_config.key_fields) > 0
    /\ HasPrimaryKey(table_config)
    /\ Len(table_config.unique_keys) = 2 /\ Len(table_config.indexes) = 2
    /\ Len(BodyOf(TextLines(sql_str.value))) = 8

-----------------------------------------------------------------------------
(* C9: in every record returned by sql_to_ddl, id_fields holds exactly the
   parsed columns named by the primary key, key_fields exactly the other columns
   named by an index, value_fields all remaining columns, each in the order of
   the statement, so that every parsed column is in exactly one group, and
   status_fields is empty. *)
ParsedColumns(sql) == ParseTableDefinition(TableDefMatch(sql).table_def).value.fields
Grouping(record, columns) ==
    LET InPrimaryKey(f) == f.name \in KeyNames(record.primary_key)
        InIndex(f) == ~InPrimaryKey(f) /\ f.name \in IndexedNames(record.indexes)
        InNeither(f) == ~InPrimaryKey(f) /\ ~InIndex(f)
    IN  /\ record.id_fields = SelectSeq(columns, InPrimaryKey)
        /\ record.key_fields = SelectSeq(columns, InIndex)
        /\ record.value_fields = SelectSeq(columns, InNeither)
        /\ record.status_fields = <<>>
        /\ Len(record.id_fields) + Len(record.key_fields) + Len(record.value_fields)
              = Len(columns)
C9_Classification ==
    /\ IsOk(ddl_data) => Grouping(ddl_data.value, ParsedColumns(sql_str.value))
    /\ IsOk(ddl_data_2) => Grouping(ddl_data_2.value, ParsedColumns(sql_str_2.value))

(* C9: a statement with two columns, a primary key on one and an index on both
   has been parsed into one id field and one key field *)
C9_ThreeGroupsUsed ==
    /\ IsOk(ddl_data)
    /\ Len(ParsedColumns(sql_str.value)) = 2
    /\ Len(ddl_data.value.id_fields) = 1 /\ Len(ddl_data.value.key_fields) = 1
    /\ Len(ddl_data.value.indexes) = 1

-----------------------------------------------------------------------------
(* C10: with quote_field_names true, the table name, every column name, every
   unique-key name, every index name and every column named inside a key clause
   is wrapped in backticks in the text; with it false, none of them is. *)
Wrapped(line, at, name) ==
    SubSeq(line, at, at + Len(name) + 1) = <<BackTick>> \o name \o <<BackTick>>
ColumnsNamedIn(line) ==
    SubSeq(line, Find(line, "(", 1) + 1, Find(line, ")", 1) - 1)
AllWrapped(names_text) ==
    \A i \in 1..Len(names_text) :
        IsWord(names_text[i]) => (At(names_text, i - 1) = BackTick /\ At(names_text, i + 1) = BackTick)
LineQuoted(line) ==
    CASE ClauseOf(line)[1] = "column" -> line[2] = BackTick
      [] ClauseOf(line)[1] = "primary key" -> AllWrapped(ColumnsNamedIn(line))
      [] ClauseOf(line)[1] = "unique key" ->
            line[6] = BackTick /\ AllWrapped(ColumnsNamedIn(line))
      [] ClauseOf(line)[1] = "key" -> line[4] = BackTick /\ AllWrapped(ColumnsNamedIn(line))
C10_QuotingUniform ==
    (Rendering /\ IsOk(sql_str)) =>
        IF quote_field_names
        THEN /\ Wrapped(TextLines(sql_str.value)[1], 5, table_config.table_name)
             /\ \A i \in 1..Len(BodyOf(TextLines(sql_str.value))) :
                   LineQuoted(BodyOf(TextLines(sql_str.value))[i])
        ELSE BackTick \notin Range(sql_str.value)

(* C10: with quote_field_names true the text has been rendered with the column
   name in backticks and the table name bare *)
C10_TableNameBare ==
    /\ Rendering /\ IsOk(sql_str) /\ quote_field_names
    /\ Len(Columns(table_config)) > 0
    /\ BackTick \notin Range(TextLines(sql_str.value)[1])
    /\ TextLines(sql_str.value)[2][2] = BackTick

(* C10: with quote_field_names true a unique key has been rendered with its
   columns in backticks and its own name bare *)
C10_UniqueKeyNameBare ==
    /\ Rendering /\ IsOk(sql_str) /\ quote_field_names
    /\ \E i \in 1..Len(BodyOf(TextLines(sql_str.value))) :
          LET line == BodyOf(TextLines(sql_str.value))[i]
          IN  /\ ClauseOf(line)[1] = "unique key"
              /\ line[6] # BackTick
              /\ AllWrapped(ColumnsNamedIn(line))

(* C10: what does hold: with quote_field_names false the text has no backtick,
   and with it true every column name, index name and column named in a key
   clause is wrapped *)
C10_QuotingOfColumnsAndIndexes ==
    (Rendering /\ IsOk(sql_str)) =>
        IF quote_field_names
        THEN \A i \in 1..Len(BodyOf(TextLines(sql_str.value))) :
                LET line == BodyOf(TextLines(sql_str.value))[i]
                IN  ClauseOf(line)[1] = "unique key" \/ LineQuoted(line)
        ELSE BackTick \notin Range(sql_str.value)

-----------------------------------------------------------------------------
(* C11: the parser reads the text rendered with bare identifiers as it reads
   the text rendered with backticks: for a valid schema and either setting of
   quote_field_names, the columns sql_to_ddl finds in the rendered text are
   the columns of the schema, same names in the same order. *)
ColumnsFound == ColumnNamesOf(ParsedColumns(sql_str.value))
C11_ColumnsKeptEitherWay ==
    pc = "ddl" => ColumnsFound = AllNames

(* C11: a schema of three valid columns rendered without backticks has been
   parsed, and no column was found *)
C11_BareColumnsSkipped ==
    /\ pc = "ddl" /\ ~quote_field_names
    /\ Len(AllNames) = 3
    /\ Len(ColumnsFound) = 0
    /\ ddl_data.value.table_name = table_config.table_name

(* C11: what does hold: rendered with backticks, every column is found, in
   order; rendered without, none is *)
C11_ColumnsKeptWhenQuoted ==
    pc = "ddl" => ColumnsFound = (IF quote_field_names THEN AllNames ELSE <<>>)

-----------------------------------------------------------------------------
(* C12: a column is rendered with the UNSIGNED qualifier exactly when its
   unsigned flag is set and its logical type is numeric (int, bigint, smallint,
   tinyint, decimal, enum); a column of any other type is never rendered with
   it.  The qualifier is compared without regard to case. *)
NumericTypes == {"int", "bigint", "smallint", "tinyint", "decimal", "enum"}
HasUnsigned(line) == \E i \in 1..Len(line) : Upper(line[i]) = "UNSIGNED"
UnsignedFlag(f) == Get(f, "unsigned", FALSE)
ColumnLineOf(i) == BodyOf(TextLines(sql_str.value))[i]
C12_UnsignedOnlyOnNumeric ==
    (Rendering /\ IsOk(sql_str)) =>
        \A i \in 1..Len(AllFieldList(table_config)) :
            HasUnsigned(ColumnLineOf(i))
                <=> (UnsignedFlag(AllFieldList(table_config)[i])
                     /\ Lower(AllFieldList(table_config)[i].type) \in NumericTypes)

(* C12: a date column with the unsigned flag has been rendered as date
   unsigned *)
C12_DateUnsigned ==
    /\ Rendering /\ IsOk(sql_str)
    /\ Len(AllFieldList(table_config)) = 1
    /\ OnlyColumn(table_config).type = "date"
    /\ UnsignedFlag(OnlyColumn(table_config))
    /\ Contains(ColumnLineOf(1), <<"date", " ", "unsigned">>)

(* C12: what does hold: the qualifier follows the flag alone, whatever the
   type *)
C12_UnsignedFollowsFlag ==
    (Rendering /\ IsOk(sql_str)) =>
        \A i \in 1..Len(AllFieldList(table_config)) :
            HasUnsigned(ColumnLineOf(i)) <=> UnsignedFlag(AllFieldList(table_config)[i])

-----------------------------------------------------------------------------
(* C13: for a column rendered with any of unsigned, not-null, auto-increment,
   default and comment set, the field the parser makes of the rendered line has
   every flag and value that was set and none that was not.  Read narrowly: the
   text is rendered with backticks, the default is a string or not set, and the
   comment holds no quote. *)
IsSet(f, flag) == Get(f, flag, FALSE)
DefaultSet(f) == DefaultOf(f) # PyNone
NotNullSet(f) == IsSet(f, "not_null") \/ IsSet(f, "required")
PlainClauseColumn ==
    /\ OneClauseColumn
    /\ quote_field_names
    /\ DefaultOf(OnlyColumn(table_config)).kind # "int"
    /\ Quote \notin Range(OnlyColumn(table_config).comment)
SameClauses(f, g) ==
    /\ \A flag \in {"unsigned", "auto_increment"} : IsSet(g, flag) = IsSet(f, flag)
    /\ NotNullSet(g) = NotNullSet(f)
    /\ DefaultSet(g) = DefaultSet(f)
    /\ DefaultOf(g) = DefaultOf(f)
    /\ g.comment = f.comment
C13_ClausesSymmetric ==
    (pc = "ddl" /\ PlainClauseColumn) =>
        /\ Len(ParsedColumns(sql_str.value)) = 1
        /\ SameClauses(OnlyColumn(table_config), ParsedColumns(sql_str.value)[1])

(* C13: an auto-increment column with default 5 and comment a has been
   rendered and parsed: the field has the flag, no default and no comment *)
C13_DefaultAndCommentLost ==
    /\ pc = "ddl" /\ PlainClauseColumn
    /\ IsSet(OnlyColumn(table_config), "auto_increment")
    /\ DefaultOf(OnlyColumn(table_config)) = PyStr(<<"5">>)
    /\ OnlyColumn(table_config).comment = <<"a">>
    /\ Contains(sql_str.value, <<"INCREMENT", " ", "DEFAULT", " ", "5", " ", "COMMENT">>)
    /\ IsSet(ParsedColumns(sql_str.value)[1], "auto_increment")
    /\ ~DefaultSet(ParsedColumns(sql_str.value)[1])
    /\ ParsedColumns(sql_str.value)[1].comment = <<>>

(* C13: what does hold: the clauses are recovered whenever auto-increment and
   a default are not set together *)
C13_SymmetricUnlessAutoIncrementWithDefault ==
    (pc = "ddl" /\ PlainClauseColumn
     /\ ~(IsSet(OnlyColumn(table_config), "auto_increment") /\ DefaultSet(OnlyColumn(table_config))))
        => /\ Len(ParsedColumns(sql_str.value)) = 1
           /\ SameClauses(OnlyColumn(table_config), ParsedColumns(sql_str.value)[1])

-----------------------------------------------------------------------------
(* C14: with a table comment that is not empty, the text ends with the closing
   parenthesis, ENGINE=InnoDB DEFAULT CHARSET=utf8 COMMENT= and the comment in
   single quotes, each quote of the comment preceded by a backslash, and a
   semicolon; with the comment absent or empty, the text ends with the closing
   parenthesis and a semicolon and has no ENGINE suffix. *)
TableCommentOf(config) == Get(config, "table_comment", <<>>)
LastLine(text) == TextLines(text)[Len(TextLines(text))]
EngineSuffix(comment_text) ==
    <<")", " ", "ENGINE", "=", "InnoDB", " ", "DEFAULT", " ", "CHARSET", "=", "utf", "8", " ",
      "COMMENT", "=", Quote>> \o comment_text \o <<Quote, ";">>
C14_TableCommentEscaped ==
    (Rendering /\ IsOk(sql_str)) =>
        IF Len(TableCommentOf(table_config)) > 0
        THEN LastLine(sql_str.value) = EngineSuffix(Escaped(TableCommentOf(table_config)))
        ELSE /\ LastLine(sql_str.value) = <<")", ";">>
             /\ "ENGINE" \notin Range(sql_str.value)

(* C14: the table comment a'a has been rendered with its quote left bare, and
   the parser has read the comment back as a *)
C14_QuoteLeftBare ==
    /\ pc = "ddl"
    /\ TableCommentOf(table_config) = <<"a", Quote, "a">>
    /\ Contains(LastLine(sql_str.value), <<"COMMENT", "=", Quote, "a", Quote, "a", Quote, ";">>)
    /\ BackSlash \notin Range(LastLine(sql_str.value))
    /\ ddl_data.value.table_comment = <<"a">>

(* C14: what does hold: the suffix carries the comment as it is, and a schema
   without the table_comment key ends like one with an empty comment *)
C14_TableCommentVerbatim ==
    (Rendering /\ IsOk(sql_str)) =>
        IF Len(TableCommentOf(table_config)) > 0
        THEN LastLine(sql_str.value) = EngineSuffix(TableCommentOf(table_config))
        ELSE /\ LastLine(sql_str.value) = <<")", ";">>
             /\ "ENGINE" \notin Range(sql_str.value)

(* C14: a schema without the table_comment key has been rendered *)
C14_NoCommentKey ==
    /\ Rendering /\ IsOk(sql_str)
    /\ "table_comment" \notin DOMAIN table_config
    /\ LastLine(sql_str.value) = <<")", ";">>

=============================================================================
